---------------------------- MODULE Spec2Model ----------------------------
(***************************************************************************)
(* A model of the flowershow publishing CLI: file discovery (lib/files.js), *)
(* the upload step (lib/storage.js and the presigned-URL loop of the        *)
(* API-based publish command), the blob table (lib/db.js), the convergence  *)
(* poller waitForSync (lib/utils.js), the publish command                   *)
(* (lib/commands/publish.js) and the sync plan (lib/api-client.ts).         *)
(*                                                                         *)
(* Time is counted in whole seconds since waitForSync read its startTime.   *)
(***************************************************************************)
EXTENDS Integers, Sequences, FiniteSets, TLC

(***************************************************************************)
(* Bounds of the model.                                                     *)
(***************************************************************************)
\* longest list of discovered files of one publish invocation
MaxFiles == 2
\* largest maxWaitSeconds waitForSync is called with in SpecWait
MaxWait == 4
\* longest time (s) one getSyncStatus round trip may take
MaxLatency == 1

\* most input paths given to discoverFiles
MaxInputs == 2

\* most directories above the file of a path given to the path resolver
MaxDepth == 1

(***************************************************************************)
(* Program constants.                                                       *)
(***************************************************************************)
\* sleep(1000) between two polls, in seconds
SleepSeconds == 1

VARIABLES
  files,          \* the discovered files of the invocation, in order
  pc,             \* position of the command / of waitForSync
  blobs,          \* the rows of the Blob table
  inflight,       \* paths whose createBlob call is issued and not settled
  impl,           \* which upload step runs: "storage" or "presigned"
  uploadUrls,     \* paths for which getUploadUrls returned an upload URL
  failing,        \* paths whose PUT to the object store fails
  uploadResults,  \* the upload step's results, in the order pushed
  transfers,      \* paths whose PUT was sent, in the order sent
  storage,        \* keys of the objects held by the object store
  input,          \* the input paths: "ok", "missing" or "invalid"
  overwrite,      \* the --overwrite flag
  sites,          \* ids of the Site rows of the user with the project name
  unhandled,      \* paths whose createBlob promise rejected with no handler
  uploadWarnings, \* "  - path: error" lines printed after the upload step
  warnings,       \* warnings displayed by the command
  errorShown,     \* message given to displayError (NoError if none)
  successShown,   \* file count given to displaySuccess (-1 if not called)
  exitCode,       \* -1 while running, then the exit code of the process
  now,            \* Date.now() - startTime, in seconds
  maxWaitSeconds, \* waitForSync's second parameter
  polls,          \* number of getSyncStatus calls made by waitForSync
  prevAllPending, \* every snapshot before the last one was non-empty, all PENDING
  lastPollInLoop, \* the last getSyncStatus call was made inside the while loop
  progress,       \* progress lines publishCommand printed about the old site
  snapshot,       \* waitForSync's local `blobs`: the last status fetched
  syncResult,     \* what waitForSync returned (NoResult until then)
  printedErrors,  \* "  - path: detail" lines printed by waitForSync
  printedPending, \* "  - path" lines printed under the Timeout heading
  localFiles,     \* syncFiles' `files`: fingerprint (sha) of each local path
  dryRun,         \* syncFiles' `dryRun`
  catalog,        \* the remote catalog: fingerprint of each published path
  planPc,         \* position of the syncFiles call
  response,       \* the HTTP response to the sync request
  syncPlan,       \* the SyncFilesResponse syncFiles returned
  apiError,       \* message of the Error syncFiles threw (NoError if none)
  inputPaths,     \* discoverFiles' `paths`
  di,             \* discoverFiles' loop index i, counted from 1
  allFiles,       \* discoverFiles' `allFiles`
  projectName,    \* discoverFiles' `projectName`
  discPc,         \* position of discoverFiles
  discError,      \* message of the Error discoverFiles threw (NoError if none)
  resolveArg,     \* the argument of a call of resolveFilePathToUrlPath
  resolveResult,  \* what that call returned
  resolvePc,      \* position of that call
  deleteArg,      \* deleteCommand's `projectName` ("" when not given)
  delPc,          \* position of deleteCommand
  listed,         \* deleteR2Files' `objectsToDelete`
  delLog,         \* lines deleteCommand and deleteR2Files printed
  apiOp,          \* the operation of the API client that is called
  apiResponse,    \* the HTTP response to its request
  apiPc,          \* position of that call
  apiThrown       \* message of the Error it threw, as a list of parts

dbVars == <<sites, blobs, inflight, unhandled>>
cmdVars == <<input, overwrite, uploadWarnings, warnings, errorShown,
             successShown, exitCode>>
upVars == <<impl, uploadUrls, failing, uploadResults, transfers, storage>>
waitVars == <<now, maxWaitSeconds, snapshot, syncResult, printedErrors,
              printedPending>>
\* what an observer of waitForSync's getSyncStatus calls and of the console
\* has noted
histVars == <<polls, prevAllPending, lastPollInLoop, progress>>

planVars == <<localFiles, dryRun, catalog, planPc, response, syncPlan,
              apiError>>

resolveVars == <<resolveArg, resolveResult, resolvePc>>
discVars == <<inputPaths, di, allFiles, projectName, discPc, discError,
              resolveVars>>
publishVars == <<files, pc, dbVars, upVars, waitVars, histVars, cmdVars>>

deleteVars == <<deleteArg, delPc, listed, delLog>>
apiVars == <<apiOp, apiResponse, apiPc, apiThrown>>
extraVars == <<deleteVars, apiVars>>

vars == <<publishVars, planVars, discVars, extraVars>>

(***************************************************************************)
(* Strings are sequences of characters, so that extensions, base names and  *)
(* patterns are computed as the code computes them.                         *)
(***************************************************************************)

UpperCase ==
  <<"A", "B", "C", "D", "E", "F", "G", "H", "I", "J", "K", "L", "M">> \o
  <<"N", "O", "P", "Q", "R", "S", "T", "U", "V", "W", "X", "Y", "Z">>

LowerCase ==
  <<"a", "b", "c", "d", "e", "f", "g", "h", "i", "j", "k", "l", "m">> \o
  <<"n", "o", "p", "q", "r", "s", "t", "u", "v", "w", "x", "y", "z">>

\* String.prototype.toLowerCase, one character
LowerChar(c) ==
  IF \E i \in 1..26 : UpperCase[i] = c
  THEN LowerCase[CHOOSE i \in 1..26 : UpperCase[i] = c]
  ELSE c

\* String.prototype.toLowerCase
toLowerCase(s) == [i \in 1..Len(s) |-> LowerChar(s[i])]

\* String.prototype.startsWith
startsWith(s, t) == Len(t) <= Len(s) /\ SubSeq(s, 1, Len(t)) = t

\* String.prototype.endsWith
endsWith(s, t) ==
  Len(t) <= Len(s) /\ SubSeq(s, Len(s) - Len(t) + 1, Len(s)) = t

\* s without its last n characters
DropLast(s, n) == SubSeq(s, 1, Len(s) - n)

\* index of the last character c of s, 0 if s has none
LastIndexOf(s, c) ==
  IF \E i \in 1..Len(s) : s[i] = c
  THEN CHOOSE i \in 1..Len(s) :
         s[i] = c /\ \A j \in (i + 1)..Len(s) : s[j] # c
  ELSE 0

\* path.basename(path): the portion after the last "/"
basename(path) == SubSeq(path, LastIndexOf(path, "/") + 1, Len(path))

\* path.extname(path): the base name from its last "." on, empty when the
\* base name has no "." or only a leading one
extname(path) ==
  LET name == basename(path)
  IN  IF LastIndexOf(name, ".") <= 1 THEN <<>>
      ELSE SubSeq(name, LastIndexOf(name, "."), Len(name))

\* path.basename(path, ext): the base name without the suffix ext
basenameWithout(path, ext) ==
  LET name == basename(path)
  IN  IF ext # <<>> /\ ext # name /\ endsWith(name, ext)
      THEN DropLast(name, Len(ext))
      ELSE name

\* path.relative(from, to) for a path `to` beneath the directory `from`
relative(from, to) == SubSeq(to, Len(from) + 2, Len(to))

\* the target paths used below

README_md == <<"R", "E", "A", "D", "M", "E", ".", "m", "d">>

README_mdx == <<"R", "E", "A", "D", "M", "E", ".", "m", "d", "x">>

notes_mdx == <<"n", "o", "t", "e", "s", ".", "m", "d", "x">>

logo_png == <<"l", "o", "g", "o", ".", "p", "n", "g">>

Slash == <<"/">>

DotMd == <<".", "m", "d">>

DotMdx == <<".", "m", "d", "x">>

Md == <<"m", "d">>

Mdx == <<"m", "d", "x">>

\* IGNORE_PATTERNS: ^text is a prefix test, text$ a suffix test and ^text$
\* an equality test

IGNORE_PATTERNS ==
  <<[kind |-> "prefix", text |-> <<".", "g", "i", "t", "/">>],
    [kind |-> "prefix", text |-> <<"n", "o", "d", "e", "_", "m", "o", "d", "u", "l", "e", "s", "/">>],
    [kind |-> "exact", text |-> <<".", "D", "S", "_", "S", "t", "o", "r", "e">>],
    [kind |-> "exact", text |-> <<"T", "h", "u", "m", "b", "s", ".", "d", "b">>],
    [kind |-> "prefix", text |-> <<".", "e", "n", "v">>],
    [kind |-> "suffix", text |-> <<".", "l", "o", "g">>],
    [kind |-> "prefix", text |-> <<".", "c", "a", "c", "h", "e", "/">>],
    [kind |-> "prefix", text |-> <<"d", "i", "s", "t", "/">>],
    [kind |-> "prefix", text |-> <<"b", "u", "i", "l", "d", "/">>],
    [kind |-> "prefix", text |-> <<".", "n", "e", "x", "t", "/">>],
    [kind |-> "prefix", text |-> <<".", "v", "e", "r", "c", "e", "l", "/">>],
    [kind |-> "prefix", text |-> <<".", "t", "u", "r", "b", "o", "/">>],
    [kind |-> "prefix", text |-> <<"c", "o", "v", "e", "r", "a", "g", "e", "/">>],
    [kind |-> "prefix", text |-> <<".", "n", "y", "c", "_", "o", "u", "t", "p", "u", "t", "/">>]>>

(***************************************************************************)
(* Files and blob rows.                                                     *)
(***************************************************************************)
\* target paths the discovered files are drawn from, with their extension
PathPool == {README_md, notes_mdx, logo_png}

\* ext ? ext.slice(1).toLowerCase() : ''
getExtension(filePath) ==
  IF extname(filePath) # <<>> THEN toLowerCase(Tail(extname(filePath)))
  ELSE <<>>

\* ['md', 'mdx'].includes(extension)
IsMarkdown(extension) == extension \in {Md, Mdx}

RECURSIVE SeqsUpTo(_)
\* the repetition-free lists over PathPool of length at most n
SeqsUpTo(n) ==
  IF n = 0 THEN {<<>>}
  ELSE LET shorter == SeqsUpTo(n - 1)
       IN shorter \cup
          {Append(s, p) : s \in {t \in shorter : Len(t) = n - 1},
                          p \in PathPool}

Range(s) == {s[i] : i \in 1..Len(s)}

FileLists == {s \in SeqsUpTo(MaxFiles) : Cardinality(Range(s)) = Len(s)}

\* the order in which one directory scan lists the paths of the pool
DirectoryOrder == <<README_md, logo_png, notes_mdx>>

\* the file lists one directory scan can produce
ScannedLists ==
  {SelectSeq(DirectoryOrder, LAMBDA p : p \in S) :
     S \in {T \in SUBSET PathPool : Cardinality(T) <= MaxFiles}}

\* the absent error of a result or of the command
NoError == "none"

\* syncError values the remote processor writes beside ERROR
NoDetail == "null"
Details == {NoDetail, "parse error"}

\* ids of the Site rows: the one found by siteExists, the one createSite makes
OldSite == "old"
NewSite == "new"

\* the row createBlob inserts (part_004:333-356)
NewBlob(siteId, path) ==
  [siteId |-> siteId, path |-> path, extension |-> getExtension(path),
   syncStatus |-> IF IsMarkdown(getExtension(path)) THEN "PENDING" ELSE "SUCCESS",
   syncError |-> NoDetail]

\* the blob rows of the site are left in the table
deleteManyMutantKeepsRows(rows, siteId) == rows

\* prisma.blob.deleteMany({ where: { siteId } }) (part_004:390-392)
deleteMany(rows, siteId) == {b \in rows : b.siteId # siteId}

\* every row the table may hold for a path
RowsOf(siteId, path) ==
  IF IsMarkdown(getExtension(path))
  THEN {NewBlob(siteId, path)}
       \cup {[NewBlob(siteId, path) EXCEPT !.syncStatus = "SUCCESS"]}
       \cup {[NewBlob(siteId, path) EXCEPT !.syncStatus = "ERROR",
                                          !.syncError = d] : d \in Details}
  ELSE {NewBlob(siteId, path)}

\* the query returns the rows of every extension
getSyncStatusMutantAllRows(siteId) ==
  {[path |-> b.path, syncStatus |-> b.syncStatus, syncError |-> b.syncError] :
     b \in {r \in blobs : r.siteId = siteId}}

\* prisma.blob.findMany where extension in ['md','mdx'], select path/status/error
getSyncStatus(siteId) ==
  {[path |-> b.path, syncStatus |-> b.syncStatus, syncError |-> b.syncError] :
     b \in {r \in blobs : r.siteId = siteId /\ IsMarkdown(r.extension)}}

(***************************************************************************)
(* discoverFiles (lib/files.js:295-392) over a file system.                *)
(***************************************************************************)
\* the regular files of the file system, in the order in which readdirSync
\* lists them, each directory followed by what lies beneath it

TreeFiles ==
  <<<<"/", "w", "/", "L", "I", "C", "E", "N", "S", "E">>,
   <<"/", "w", "/", "R", "E", "A", "D", "M", "E", ".", "m", "d">>,
   <<"/", "w", "/", "a", ".", "m", "d">>,
   <<"/", "w", "/", "b", ".", "M", "D", "X">>,
   <<"/", "w", "/", "l", "o", "g", "o", ".", "p", "n", "g">>,
   <<"/", "w", "/", "s", "i", "t", "e", "/", ".", "e", "n", "v">>,
   <<"/", "w", "/", "s", "i", "t", "e", "/", ".", "g", "i", "t", "/", "c", "o", "n", "f", "i", "g">>,
   <<"/", "w", "/", "s", "i", "t", "e", "/", ".", "g", "i", "t", "i", "g", "n", "o", "r", "e">>,
   <<"/", "w", "/", "s", "i", "t", "e", "/", "d", "r", "a", "f", "t", ".", "m", "d">>,
   <<"/", "w", "/", "s", "i", "t", "e", "/", "i", "n", "t", "r", "o", ".", "m", "d">>,
   <<"/", "w", "/", "s", "i", "t", "e", "/", "n", "o", "t", "e", "s", "/", "i", "n", "d", "e", "x", ".", "m", "d">>,
   <<"/", "w", "/", "s", "i", "t", "e", "/", "s", "u", "b", "/", ".", "D", "S", "_", "S", "t", "o", "r", "e">>,
   <<"/", "w", "/", "s", "i", "t", "e", "/", "s", "u", "b", "/", ".", "g", "i", "t", "/", "c", "o", "n", "f", "i", "g">>,
   <<"/", "w", "/", "s", "i", "t", "e", "/", "s", "u", "b", "/", "a", "p", "p", ".", "l", "o", "g">>>>

\* a directory without entries
EmptyDirectories ==
  {<<"/", "w", "/", "e", "m", "p", "t", "y">>}

\* an entry that is neither a regular file nor a directory
OtherEntries ==
  {<<"/", "w", "/", "p", "i", "p", "e">>}

\* the paths given as inputs; the last one does not exist
InputPool ==
  {<<"/", "w", "/", "L", "I", "C", "E", "N", "S", "E">>,
   <<"/", "w", "/", "R", "E", "A", "D", "M", "E", ".", "m", "d">>,
   <<"/", "w", "/", "a", ".", "m", "d">>,
   <<"/", "w", "/", "b", ".", "M", "D", "X">>,
   <<"/", "w", "/", "l", "o", "g", "o", ".", "p", "n", "g">>,
   <<"/", "w", "/", "s", "i", "t", "e">>,
   <<"/", "w", "/", "s", "i", "t", "e", "/", "n", "o", "t", "e", "s">>,
   <<"/", "w", "/", "e", "m", "p", "t", "y">>,
   <<"/", "w", "/", "p", "i", "p", "e">>,
   <<"/", "w", "/", "g", "o", "n", "e">>}

\* the input lists of at most MaxInputs paths
InputLists == UNION {[1..n -> InputPool] : n \in 0..MaxInputs}

\* stats.isFile()
isFile(path) == \E i \in 1..Len(TreeFiles) : TreeFiles[i] = path

\* stats.isDirectory()
isDirectory(path) ==
  \/ path \in EmptyDirectories
  \/ \E i \in 1..Len(TreeFiles) : startsWith(TreeFiles[i], path \o Slash)

existsSync(path) == isFile(path) \/ isDirectory(path) \/ path \in OtherEntries

\* null and undefined
NullValue == <<"null">>
Undefined == <<"undefined">>

\* a value that counts as true in a condition
Truthy(v) == v # NullValue /\ v # Undefined /\ v # <<>>

\* pattern.test(normalizedPath)
PatternTest(pattern, s) ==
  CASE pattern.kind = "prefix" -> startsWith(s, pattern.text)
    [] pattern.kind = "suffix" -> endsWith(s, pattern.text)
    [] OTHER -> s = pattern.text

\* !IGNORE_PATTERNS.some(pattern => pattern.test(normalizedPath))
shouldIncludeFile(filePath) ==
  ~\E i \in 1..Len(IGNORE_PATTERNS) : PatternTest(IGNORE_PATTERNS[i], filePath)

\* scan() enters every directory above the entry: none of them is skipped
Entered(relativePath) ==
  \A k \in 1..Len(relativePath) :
    relativePath[k] = "/" => shouldIncludeFile(SubSeq(relativePath, 1, k - 1))

\* the full paths scanDirectory returns for a directory
scanDirectory(dirPath) ==
  SelectSeq(TreeFiles,
            LAMBDA f : /\ startsWith(f, dirPath \o Slash)
                       /\ Entered(relative(dirPath, f))
                       /\ shouldIncludeFile(relative(dirPath, f)))

\* the extension is matched in lower case only
StripMarkdownExtensionMutantCaseSensitive(filePath) ==
  IF endsWith(filePath, DotMdx) THEN DropLast(filePath, 4)
  ELSE IF endsWith(filePath, DotMd) THEN DropLast(filePath, 3)
  ELSE filePath

\* filePath.replace(/\.(md|mdx)$/i, '')
StripMarkdownExtension(filePath) ==
  IF endsWith(toLowerCase(filePath), DotMdx) THEN DropLast(filePath, 4)
  ELSE IF endsWith(toLowerCase(filePath), DotMd) THEN DropLast(filePath, 3)
  ELSE filePath

resolveFilePathToUrlPath(filePath) ==
  LET urlPath == StripMarkdownExtension(filePath)
  IN  IF urlPath = <<"R", "E", "A", "D", "M", "E">>
         \/ urlPath = <<"r", "e", "a", "d", "m", "e">>
      THEN Slash
      ELSE IF endsWith(urlPath, <<"/", "i", "n", "d", "e", "x">>)
              \/ endsWith(urlPath, <<"/", "I", "N", "D", "E", "X">>)
      THEN IF DropLast(urlPath, 6) = <<>> THEN Slash
           ELSE DropLast(urlPath, 6)
      ELSE IF urlPath = <<>> THEN Slash ELSE urlPath

\* urlPath === '/' ? '/' : urlPath.replace(/^\//, '') for md and mdx, else null
AppPath(extension, targetPath) ==
  IF ~IsMarkdown(extension) THEN NullValue
  ELSE LET urlPath == resolveFilePathToUrlPath(targetPath)
       IN  IF urlPath = Slash THEN Slash
           ELSE IF startsWith(urlPath, Slash) THEN Tail(urlPath)
           ELSE urlPath

\* the first file is named README and keeps its extension
FirstTargetPathMutantOriginalExtension(extension) ==
  <<"R", "E", "A", "D", "M", "E", ".">> \o extension

\* the first file is always named README.md
FirstTargetPathMutantAlwaysMd(extension) == README_md

\* extension === 'mdx' ? 'README.mdx' : 'README.md'
FirstTargetPath(extension) ==
  IF extension = Mdx THEN README_mdx ELSE README_md

\* a later file is stored under the full path given on the command line
LaterTargetPathMutantFullPath(inputPath) == inputPath

\* targetPath = basename(inputPath)
LaterTargetPath(inputPath) == basename(inputPath)

\* the object pushed for a file input (content, size and sha left out)
FileEntry(inputPath, isFirstPath) ==
  [originalPath |-> inputPath,
   path |-> IF isFirstPath THEN FirstTargetPath(getExtension(inputPath))
            ELSE LaterTargetPath(inputPath),
   extension |-> getExtension(inputPath),
   appPath |-> IF isFirstPath
               THEN IF IsMarkdown(getExtension(inputPath)) THEN Slash
                    ELSE NullValue
               ELSE AppPath(getExtension(inputPath),
                            LaterTargetPath(inputPath)),
   projectName |-> Undefined]

\* every file of a directory is stored under its base name
RelativePathMutantBaseName(inputPath, filePath) == basename(filePath)

\* relative(inputPath, filePath)
RelativePath(inputPath, filePath) == relative(inputPath, filePath)

\* the object pushed for a file found in a directory input
DirectoryEntry(inputPath, filePath) ==
  [originalPath |-> filePath,
   path |-> RelativePath(inputPath, filePath),
   extension |-> getExtension(filePath),
   appPath |-> AppPath(getExtension(filePath),
                       RelativePath(inputPath, filePath)),
   projectName |-> Undefined]

\* files[0].projectName of a non-empty list (an empty list throws)
getProjectName(fs) == fs[1].projectName

\* paths.length === 0 throws; otherwise the loop starts
DiscoverStart ==
  /\ discPc = "start"
  /\ IF Len(inputPaths) = 0
     THEN discPc' = "threw" /\ discError' = "No paths provided"
     ELSE discPc' = "loop" /\ UNCHANGED discError
  /\ UNCHANGED <<inputPaths, di, allFiles, projectName>>
  /\ UNCHANGED resolveVars
  /\ UNCHANGED <<publishVars, planVars, extraVars>>

\* every file input sets the project name
FileProjectNameMutantEveryFile(isFirstPath, current, inputPath) ==
  basenameWithout(inputPath, extname(inputPath))

\* if (isFirstPath) projectName = fileName
FileProjectName(isFirstPath, current, inputPath) ==
  IF isFirstPath THEN basenameWithout(inputPath, extname(inputPath))
  ELSE current

\* if (isFirstPath && !projectName) projectName = dirName
DirectoryProjectName(isFirstPath, current, inputPath) ==
  IF isFirstPath /\ ~Truthy(current) THEN basename(inputPath)
  ELSE current

\* one iteration of the loop, stats.isFile()
DiscoverFile ==
  /\ discPc = "loop"
  /\ di <= Len(inputPaths)
  /\ isFile(inputPaths[di])
  /\ allFiles' = Append(allFiles, FileEntry(inputPaths[di], di = 1))
  /\ projectName' = FileProjectName(di = 1, projectName, inputPaths[di])
  /\ di' = di + 1
  /\ UNCHANGED <<inputPaths, discPc, discError>>
  /\ UNCHANGED resolveVars
  /\ UNCHANGED <<publishVars, planVars, extraVars>>

\* one iteration of the loop, stats.isDirectory()
DiscoverDirectory ==
  /\ discPc = "loop"
  /\ di <= Len(inputPaths)
  /\ isDirectory(inputPaths[di])
  /\ LET dirFiles == scanDirectory(inputPaths[di])
     IN  allFiles' =
           allFiles \o [k \in 1..Len(dirFiles) |->
                          DirectoryEntry(inputPaths[di], dirFiles[k])]
  /\ projectName' = DirectoryProjectName(di = 1, projectName, inputPaths[di])
  /\ di' = di + 1
  /\ UNCHANGED <<inputPaths, discPc, discError>>
  /\ UNCHANGED resolveVars
  /\ UNCHANGED <<publishVars, planVars, extraVars>>

\* one iteration of the loop, neither a file nor a directory
DiscoverInvalid ==
  /\ discPc = "loop"
  /\ di <= Len(inputPaths)
  /\ inputPaths[di] \in OtherEntries
  /\ discPc' = "threw"
  /\ discError' = "Invalid path: neither a file nor a directory"
  /\ UNCHANGED <<inputPaths, di, allFiles, projectName>>
  /\ UNCHANGED resolveVars
  /\ UNCHANGED <<publishVars, planVars, extraVars>>

\* one iteration of the loop, statSync throws for a path that does not exist
DiscoverMissing ==
  /\ discPc = "loop"
  /\ di <= Len(inputPaths)
  /\ ~existsSync(inputPaths[di])
  /\ discPc' = "threw"
  /\ discError' = "ENOENT: no such file or directory"
  /\ UNCHANGED <<inputPaths, di, allFiles, projectName>>
  /\ UNCHANGED resolveVars
  /\ UNCHANGED <<publishVars, planVars, extraVars>>

\* after the loop: the project name is stored in the first file
DiscoverReturns ==
  /\ discPc = "loop"
  /\ di > Len(inputPaths)
  /\ allFiles' =
       IF Len(allFiles) > 0 /\ Truthy(projectName)
       THEN [allFiles EXCEPT ![1].projectName = projectName]
       ELSE allFiles
  /\ discPc' = "returned"
  /\ UNCHANGED <<inputPaths, di, projectName, discError>>
  /\ UNCHANGED resolveVars
  /\ UNCHANGED <<publishVars, planVars, extraVars>>

\* the call of resolveFilePathToUrlPath
ResolveCall ==
  /\ resolvePc = "call"
  /\ resolveResult' = resolveFilePathToUrlPath(resolveArg)
  /\ resolvePc' = "returned"
  /\ UNCHANGED <<resolveArg, inputPaths, di, allFiles, projectName, discPc,
                 discError>>
  /\ UNCHANGED <<publishVars, planVars, extraVars>>

\* resolveFilePathToUrlPath is not called
ResolveIdle ==
  /\ resolveArg = <<>>
  /\ resolveResult = NullValue
  /\ resolvePc = "idle"

\* discoverFiles is not running
DiscoverIdle ==
  /\ inputPaths = <<>>
  /\ di = 1
  /\ allFiles = <<>>
  /\ projectName = NullValue
  /\ discPc = "idle"
  /\ discError = NoError
  /\ ResolveIdle

(***************************************************************************)
(* The sync request: syncFiles of the API client, and the planner that     *)
(* answers it (section 4.3 of the specification; the planner runs behind   *)
(* the API and the client holds only the shape of its answer).             *)
(***************************************************************************)
Fingerprints == {"X", "Y"}

\* the path-to-fingerprint maps over at most MaxFiles paths of the pool
FingerprintMaps ==
  UNION {[S -> Fingerprints] :
           S \in {T \in SUBSET PathPool : Cardinality(T) <= MaxFiles}}

NoFiles == [p \in {} |-> "X"]

NoMessage == "none"

\* the request sends no file at all
SyncRequestMutantNoFiles(siteId, fs, dry) ==
  [siteId |-> siteId, dryRun |-> dry, files |-> NoFiles]

\* POST /api/sites/id/<siteId>/sync[?dryRun=true] with body {files}
SyncRequest(siteId, fs, dry) ==
  [siteId |-> siteId, dryRun |-> dry, files |-> fs]

\* the bucket of a local path
Bucket(local, remote, p) ==
  IF p \notin DOMAIN remote THEN "toUpload"
  ELSE IF local[p] # remote[p] THEN "toUpdate"
  ELSE "unchanged"

\* an UploadUrl entry
UploadUrlFor(p) == [path |-> p, uploadUrl |-> <<"put", p>>]

\* the SyncPlan of a local and a remote map
plan(local, remote, dry) ==
  LET InBucket(b) == {p \in DOMAIN local : Bucket(local, remote, p) = b}
      gone == {p \in DOMAIN remote : p \notin DOMAIN local}
  IN  [toUpload |-> {UploadUrlFor(p) : p \in InBucket("toUpload")},
       toUpdate |-> {UploadUrlFor(p) : p \in InBucket("toUpdate")},
       deleted |-> gone,
       unchanged |-> InBucket("unchanged"),
       summary |-> [toUpload |-> Cardinality(InBucket("toUpload")),
                    toUpdate |-> Cardinality(InBucket("toUpdate")),
                    deleted |-> Cardinality(gone),
                    unchanged |-> Cardinality(InBucket("unchanged"))],
       dryRun |-> dry]

NoPlan == plan(NoFiles, NoFiles, FALSE)

NoResponse == [ok |-> FALSE, message |-> NoMessage, statusText |-> "", body |-> NoPlan]

\* error.message || `Failed to sync files: ${response.statusText}`
SyncFilesError(resp) ==
  IF resp.message # NoMessage THEN resp.message
  ELSE "Failed to sync files: " \o resp.statusText

\* the API answers the request: with the plan, or with an error whose body
\* may carry a message
ApiAnswers ==
  /\ planPc = "call"
  /\ LET req == SyncRequest(NewSite, localFiles, dryRun)
     IN  \E ok \in BOOLEAN, msg \in {NoMessage, "Site not found"} :
           /\ ok => msg = NoMessage
           /\ response' =
                [ok |-> ok, message |-> msg,
                 statusText |-> IF ok THEN "OK" ELSE "Not Found",
                 body |-> IF ok THEN plan(req.files, catalog, req.dryRun)
                          ELSE NoPlan]
  /\ planPc' = "responded"
  /\ UNCHANGED <<localFiles, dryRun, catalog, syncPlan, apiError>>
  /\ UNCHANGED <<publishVars, discVars, extraVars>>

\* if (!response.ok) throw new Error(...)
SyncFilesThrows ==
  /\ planPc = "responded"
  /\ ~response.ok
  /\ apiError' = SyncFilesError(response)
  /\ planPc' = "threw"
  /\ UNCHANGED <<localFiles, dryRun, catalog, response, syncPlan>>
  /\ UNCHANGED <<publishVars, discVars, extraVars>>

\* return (await response.json()) as SyncFilesResponse
SyncFilesReturns ==
  /\ planPc = "responded"
  /\ response.ok
  /\ syncPlan' = response.body
  /\ planPc' = "returned"
  /\ UNCHANGED <<localFiles, dryRun, catalog, response, apiError>>
  /\ UNCHANGED <<publishVars, discVars, extraVars>>

\* no sync request is made
PlanIdle ==
  /\ localFiles = NoFiles
  /\ dryRun = FALSE
  /\ catalog = NoFiles
  /\ planPc = "idle"
  /\ response = NoResponse
  /\ syncPlan = NoPlan
  /\ apiError = NoError

(***************************************************************************)
(* deleteCommand and deleteR2Files (lib/commands/delete.js:30-100), with    *)
(* deleteSite of the database layer.                                        *)
(***************************************************************************)
\* a site of the same user under another project name
OtherSite == "other"

\* paths of the files the sites of the delete model were published from
DeletePool == {README_md, logo_png}

\* the key under which a site's file is stored: `${siteId}/main/raw/${path}`
ObjectKey(siteId, path) == <<siteId, "main", "raw", path>>

\* Prefix: `${siteId}/` of ListObjectsV2Command
WithPrefix(keys, siteId) == {k \in keys : k[1] = siteId}

\* what deleteCommand leaves unchanged
deleteFrame ==
  <<files, pc, inflight, unhandled, impl, uploadUrls, failing, uploadResults,
    transfers, waitVars, histVars, input, overwrite, uploadWarnings,
    warnings, successShown, planVars, discVars, apiVars>>

\* displayError(...); process.exit(1) inside deleteCommand
DeleteExitWith(message) ==
  /\ errorShown' = message
  /\ exitCode' = 1
  /\ delPc' = "exited"

\* if (!projectName) { displayError(...); process.exit(1) } (lines 70-73)
DeleteStart ==
  /\ delPc = "start"
  /\ IF deleteArg = ""
     THEN DeleteExitWith("Project name is required")
     ELSE delPc' = "delete_site" /\ UNCHANGED <<errorShown, exitCode>>
  /\ UNCHANGED <<sites, blobs, storage, deleteArg, listed, delLog>>
  /\ UNCHANGED deleteFrame

\* deleteSite(user.id, projectName): findFirst, blob.deleteMany, site.delete;
\* null when no site has the name (lines 80-86)
DeleteSiteRows ==
  /\ delPc = "delete_site"
  /\ IF OldSite \notin sites
     THEN /\ DeleteExitWith("Site not found")
          /\ UNCHANGED <<sites, blobs>>
     ELSE /\ blobs' = deleteMany(blobs, OldSite)
          /\ sites' = sites \ {OldSite}
          /\ delPc' = "list"
          /\ UNCHANGED <<errorShown, exitCode>>
  /\ UNCHANGED <<storage, deleteArg, listed, delLog>>
  /\ UNCHANGED deleteFrame

\* a database call of deleteSite rejects: the catch of deleteCommand
\* (lines 94-99)
DeleteSiteThrows ==
  /\ delPc = "delete_site"
  /\ DeleteExitWith("database error")
  /\ UNCHANGED <<sites, blobs, storage, deleteArg, listed, delLog>>
  /\ UNCHANGED deleteFrame

\* the warning printed by the catch of deleteR2Files (lines 59-61)
StorageWarning == <<"Warning: Failed to delete some files from storage">>

\* the pages a listing of these keys may answer with: all of them, or, when
\* the listing is truncated, a first page that leaves some out
ListPages(keys) ==
  {keys} \cup {page \in SUBSET keys : page # {} /\ page # keys}

\* ListObjectsV2Command with the site prefix (lines 34-44): the call throws,
\* or it answers with a page of the keys; an empty page ends deleteR2Files
DeleteList ==
  /\ delPc = "list"
  /\ \/ /\ delLog' = delLog \cup {StorageWarning}
        /\ delPc' = "report"
        /\ UNCHANGED listed
     \/ \E page \in ListPages(WithPrefix(storage, OldSite)) :
          /\ listed' = page
          /\ delPc' = IF page = {} THEN "report" ELSE "delete_objects"
          /\ UNCHANGED delLog
  /\ UNCHANGED <<sites, blobs, storage, deleteArg, errorShown, exitCode>>
  /\ UNCHANGED deleteFrame

\* DeleteObjectsCommand with Quiet: false (lines 47-58): the call throws, or
\* it answers, after deleting the keys it could delete, with a result whose
\* Errors the code does not read
DeleteObjects ==
  /\ delPc = "delete_objects"
  /\ \/ /\ delLog' = delLog \cup {StorageWarning}
        /\ UNCHANGED storage
     \/ \E deleted \in SUBSET listed :
          /\ storage' = storage \ deleted
          /\ delLog' = delLog \cup {<<"Deleted file(s) from storage",
                                      Cardinality(listed)>>}
  /\ delPc' = "report"
  /\ UNCHANGED <<sites, blobs, deleteArg, listed, errorShown, exitCode>>
  /\ UNCHANGED deleteFrame

\* the line printed after deleteR2Files returned (line 91)
DeleteSuccess == <<"Successfully deleted site">>

\* console.log of the success line and disconnect (lines 91-93)
DeleteReport ==
  /\ delPc = "report"
  /\ delLog' = delLog \cup {DeleteSuccess}
  /\ exitCode' = 0
  /\ delPc' = "done"
  /\ UNCHANGED <<sites, blobs, storage, deleteArg, listed, errorShown>>
  /\ UNCHANGED deleteFrame

\* deleteCommand is not running
DeleteIdle ==
  /\ deleteArg = ""
  /\ delPc = "idle"
  /\ listed = {}
  /\ delLog = {}

(***************************************************************************)
(* The operations of the API client (lib/api-client.ts:110-303): each sends *)
(* one request and turns the response into a value or an Error.             *)
(***************************************************************************)
ApiOperations ==
  {"createSite", "getSites", "getSiteById", "getSiteByName", "deleteSite",
   "syncFiles", "getSiteStatus"}

\* the text each operation puts before response.statusText
FailurePrefix(op) ==
  CASE op = "createSite" -> "Failed to create site: "
    [] op = "getSites" -> "Failed to fetch sites: "
    [] op = "getSiteById" -> "Failed to fetch site: "
    [] op = "getSiteByName" -> "Failed to fetch site: "
    [] op = "deleteSite" -> "Failed to delete site: "
    [] op = "syncFiles" -> "Failed to sync files: "
    [] op = "getSiteStatus" -> "Failed to get site status: "

\* the status codes the API answers with, and their status texts
StatusCodes == {200, 201, 400, 404, 500}

StatusText(status) ==
  CASE status = 200 -> "OK"
    [] status = 201 -> "Created"
    [] status = 400 -> "Bad Request"
    [] status = 404 -> "Not Found"
    [] status = 500 -> "Internal Server Error"

\* response.ok: the status is in the range 200-299
ResponseOk(status) == status >= 200 /\ status <= 299

\* the `message` of the parsed body: NoMessage when the body is not JSON
\* (the catch gives {}) or has no such field
BodyMessages == {NoMessage, "", "Site name is taken"}

\* the message is built without the status text
ApiErrorMutantNoStatusText(op, resp) ==
  IF resp.message \notin {NoMessage, ""} THEN <<resp.message>>
  ELSE <<FailurePrefix(op)>>

\* error.message || `Failed to ...: ${response.statusText}`, as the list of
\* the parts the message is made of
ApiError(op, resp) ==
  IF resp.message \notin {NoMessage, ""} THEN <<resp.message>>
  ELSE <<FailurePrefix(op), resp.statusText>>

\* if (response.status === 404) return null, of getSiteByName alone
ReturnsNull(op, resp) == op = "getSiteByName" /\ resp.status = 404

NoApiResponse ==
  [ok |-> FALSE, status |-> 0, statusText |-> "", message |-> NoMessage]

NoApiError == <<>>

\* await apiRequest(...): the API answers with a status and a body
ApiResponds ==
  /\ apiPc = "call"
  /\ \E status \in StatusCodes, msg \in BodyMessages :
       apiResponse' = [ok |-> ResponseOk(status), status |-> status,
                       statusText |-> StatusText(status), message |-> msg]
  /\ apiPc' = "responded"
  /\ UNCHANGED <<apiOp, apiThrown>>
  /\ UNCHANGED <<publishVars, planVars, discVars, deleteVars>>

\* return (await response.json())
ApiReturns ==
  /\ apiPc = "responded"
  /\ apiResponse.ok
  /\ apiPc' = "returned"
  /\ UNCHANGED <<apiOp, apiResponse, apiThrown>>
  /\ UNCHANGED <<publishVars, planVars, discVars, deleteVars>>

\* return null
ApiReturnsNull ==
  /\ apiPc = "responded"
  /\ ~apiResponse.ok
  /\ ReturnsNull(apiOp, apiResponse)
  /\ apiPc' = "returned_null"
  /\ UNCHANGED <<apiOp, apiResponse, apiThrown>>
  /\ UNCHANGED <<publishVars, planVars, discVars, deleteVars>>

\* throw new Error(...)
ApiThrows ==
  /\ apiPc = "responded"
  /\ ~apiResponse.ok
  /\ ~ReturnsNull(apiOp, apiResponse)
  /\ apiThrown' = ApiError(apiOp, apiResponse)
  /\ apiPc' = "threw"
  /\ UNCHANGED <<apiOp, apiResponse>>
  /\ UNCHANGED <<publishVars, planVars, discVars, deleteVars>>

\* no operation of the API client is called
ApiIdle ==
  /\ apiOp = "none"
  /\ apiResponse = NoApiResponse
  /\ apiPc = "idle"
  /\ apiThrown = NoApiError

\* neither deleteCommand nor the API client is running
ExtraIdle == DeleteIdle /\ ApiIdle

(***************************************************************************)
(* waitForSync (lib/utils.js:30-95).                                        *)
(***************************************************************************)
NoResult ==
  [returned |-> FALSE, success |-> FALSE, timeout |-> FALSE,
   hasErrors |-> FALSE, blobs |-> {}, errors |-> {}]

\* blobs.filter((b) => b.syncStatus === status)
WithStatus(snap, status) == {b \in snap : b.syncStatus = status}

\* the loop goes on whatever the time
LoopConditionMutantNoDeadline(t, maxWait) == TRUE

\* Date.now() - startTime < maxWaitMs, with elapsed time t in seconds
LoopCondition(t, maxWait) == t * 1000 < maxWait * 1000

\* `${blob.path}: ${blob.syncError || "Unknown error"}`
ErrorLine(b) ==
  [path |-> b.path,
   detail |-> IF b.syncError = NoDetail THEN "Unknown error" ELSE b.syncError]

\* the value returned from inside the loop for a snapshot without PENDING rows
LoopReturn(snap) ==
  IF snap = {}
  THEN [returned |-> TRUE, success |-> TRUE, timeout |-> FALSE,
        hasErrors |-> FALSE, blobs |-> {}, errors |-> {}]
  ELSE IF WithStatus(snap, "ERROR") # {}
  THEN [returned |-> TRUE, success |-> FALSE, timeout |-> FALSE,
        hasErrors |-> TRUE, blobs |-> snap,
        errors |-> WithStatus(snap, "ERROR")]
  ELSE [returned |-> TRUE, success |-> TRUE, timeout |-> FALSE,
        hasErrors |-> FALSE, blobs |-> snap, errors |-> {}]

\* the loop body decides to return: no rows at all, or no PENDING row
LoopDoneMutantNoError(snap) ==
  snap = {} \/ WithStatus(snap, "PENDING") = {} \/ WithStatus(snap, "ERROR") # {}

LoopDone(snap) == snap = {} \/ WithStatus(snap, "PENDING") = {}

\* the value returned after the loop (lines 81-94)
TimeoutReturn(snap) ==
  [returned |-> TRUE, success |-> FALSE, timeout |-> TRUE,
   hasErrors |-> FALSE, blobs |-> snap, errors |-> {}]

\* every row of a non-empty snapshot has the given status
AllAre(snap, status) == snap # {} /\ \A b \in snap : b.syncStatus = status

\* the observer's note of one getSyncStatus call
NotePoll(inLoop) ==
  /\ polls' = polls + 1
  /\ prevAllPending' = (prevAllPending /\ (polls = 0 \/ AllAre(snapshot, "PENDING")))
  /\ lastPollInLoop' = inLoop
  /\ UNCHANGED progress

\* const startTime = Date.now(); then the first test of the while condition
WsEnter ==
  /\ pc = "ws_enter"
  /\ pc' = IF LoopCondition(now, maxWaitSeconds) THEN "ws_poll" ELSE "ws_timeout"
  /\ UNCHANGED <<planVars, discVars, extraVars>>
  /\ UNCHANGED <<files, dbVars, upVars, waitVars, cmdVars, histVars>>

\* one pass of the loop body up to its return or its sleep (lines 39-78)
WsPoll ==
  /\ pc = "ws_poll"
  /\ \E d \in 0..MaxLatency : now' = now + d
  /\ LET snap == getSyncStatus(NewSite)
     IN /\ snapshot' = snap
        /\ IF LoopDone(snap)
           THEN /\ syncResult' = LoopReturn(snap)
                /\ printedErrors' = {ErrorLine(b) : b \in LoopReturn(snap).errors}
                /\ pc' = "ws_returned"
           ELSE /\ pc' = "ws_sleep"
                /\ UNCHANGED <<syncResult, printedErrors>>
  /\ UNCHANGED <<planVars, discVars, extraVars>>
  /\ UNCHANGED <<files, dbVars, upVars, cmdVars, maxWaitSeconds, printedPending>>

\* await sleep(1000), then the next test of the while condition
WsSleep ==
  /\ pc = "ws_sleep"
  /\ now' = now + SleepSeconds
  /\ pc' = IF LoopCondition(now', maxWaitSeconds) THEN "ws_poll" ELSE "ws_timeout"
  /\ UNCHANGED <<planVars, discVars, extraVars>>
  /\ UNCHANGED <<files, dbVars, upVars, cmdVars, histVars, maxWaitSeconds,
                 snapshot, syncResult, printedErrors, printedPending>>

\* the fetch after the loop and the timeout report (lines 81-94)
WsTimeout ==
  /\ pc = "ws_timeout"
  /\ \E d \in 0..MaxLatency : now' = now + d
  /\ LET snap == getSyncStatus(NewSite)
     IN /\ snapshot' = snap
        /\ syncResult' = TimeoutReturn(snap)
        /\ printedPending' = {b.path : b \in WithStatus(snap, "PENDING")}
  /\ pc' = "ws_returned"
  /\ UNCHANGED <<planVars, discVars, extraVars>>
  /\ UNCHANGED <<files, dbVars, upVars, cmdVars, maxWaitSeconds, printedErrors>>

(***************************************************************************)
(* The environment of the poller: the createBlob calls still in flight and  *)
(* the remote processor, which alone changes a row's status.                *)
(***************************************************************************)
Polling == pc \in {"ws_enter", "ws_poll", "ws_sleep", "ws_timeout"}

\* prisma.blob.create of an issued createBlob call completes
CreateBlobSettles ==
  /\ Polling
  /\ \E p \in inflight :
       /\ blobs' = blobs \cup {NewBlob(NewSite, p)}
       /\ inflight' = inflight \ {p}
  /\ UNCHANGED <<planVars, discVars, extraVars>>
  /\ UNCHANGED <<files, pc, sites, unhandled, upVars, waitVars, histVars,
                 cmdVars>>

\* the remote processor finishes a PENDING row: SUCCESS, or ERROR with a detail
ProcessorSucceeds ==
  /\ Polling
  /\ \E b \in WithStatus(blobs, "PENDING") :
       blobs' = (blobs \ {b}) \cup {[b EXCEPT !.syncStatus = "SUCCESS"]}
  /\ UNCHANGED <<planVars, discVars, extraVars>>
  /\ UNCHANGED <<files, pc, sites, inflight, unhandled, upVars, waitVars,
                 histVars, cmdVars>>

ProcessorFails ==
  /\ Polling
  /\ \E b \in WithStatus(blobs, "PENDING"), d \in Details :
       blobs' = (blobs \ {b})
                  \cup {[b EXCEPT !.syncStatus = "ERROR", !.syncError = d]}
  /\ UNCHANGED <<planVars, discVars, extraVars>>
  /\ UNCHANGED <<files, pc, sites, inflight, unhandled, upVars, waitVars,
                 histVars, cmdVars>>

(***************************************************************************)
(* SpecWait: one call of waitForSync on a site in any state of its rows,    *)
(* with any deadline up to MaxWait.                                         *)
(***************************************************************************)
\* the tables holding at most one row per path of ps
TablesOver(siteId, ps) ==
  {t \in SUBSET UNION {RowsOf(siteId, p) : p \in ps} :
     \A p \in ps : Cardinality({r \in t : r.path = p}) <= 1}

InitWait ==
  /\ files \in FileLists
  /\ inflight \in SUBSET Range(files)
  /\ blobs \in TablesOver(NewSite, Range(files) \ inflight)
  /\ maxWaitSeconds \in 0..MaxWait
  /\ input = "ok"
  /\ overwrite = FALSE
  /\ sites = {NewSite}
  /\ unhandled = {}
  /\ uploadWarnings = {}
  /\ warnings = {}
  /\ errorShown = NoError
  /\ successShown = -1
  /\ exitCode = -1
  /\ PlanIdle
  /\ DiscoverIdle
  /\ pc = "ws_enter"
  /\ impl = "storage"
  /\ uploadUrls = {}
  /\ failing = {}
  /\ uploadResults = <<>>
  /\ transfers = <<>>
  /\ storage = {}
  /\ now = 0
  /\ polls = 0
  /\ progress = {}
  /\ prevAllPending = TRUE
  /\ lastPollInLoop = FALSE
  /\ snapshot = {}
  /\ syncResult = NoResult
  /\ printedErrors = {}
  /\ printedPending = {}
  /\ ExtraIdle

\* the poller's two fetching steps with the observer's note taken
WsPollObserved == WsPoll /\ NotePoll(TRUE)

WsTimeoutObserved == WsTimeout /\ NotePoll(FALSE)

NextWait ==
  \/ WsEnter
  \/ WsPollObserved
  \/ WsSleep
  \/ WsTimeoutObserved
  \/ CreateBlobSettles
  \/ ProcessorSucceeds
  \/ ProcessorFails

SpecWait == InitWait /\ [][NextWait]_vars

\* the steps of waitForSync itself
WaitForSyncStep ==
  \/ WsEnter
  \/ WsPollObserved
  \/ WsSleep
  \/ WsTimeoutObserved

\* waitForSync called for the files of one directory scan
InitWaitScanned == InitWait /\ files \in ScannedLists

\* waitForSync when every status fetch returns and every sleep ends; nothing
\* is assumed of the processor or of the createBlob calls
SpecWaitFair ==
  InitWaitScanned /\ [][NextWait]_vars /\ WF_vars(WaitForSyncStep)

(***************************************************************************)
(* The upload step: uploadFiles of lib/storage.js ("storage") and the loop  *)
(* over presigned URLs of the API-based publish command ("presigned").      *)
(***************************************************************************)
\* uploadData.uploadUrls.find((u) => u.path === file.path) finds no entry
NoUploadUrl(path) == impl = "presigned" /\ path \notin uploadUrls

\* s3Client.send / uploadToR2 throws for this file
TransferThrows(path) == path \in failing

\* the entry pushed to the results for one file
UploadResult(path) ==
  IF NoUploadUrl(path)
  THEN [path |-> path, success |-> FALSE, error |-> "No upload URL received"]
  ELSE IF TransferThrows(path)
  THEN [path |-> path, success |-> FALSE, error |-> "Failed to upload file"]
  ELSE [path |-> path, success |-> TRUE, error |-> NoError]

\* `${siteId}/main/raw/${filePath}`
StorageKey(path) == <<NewSite, "main", "raw", path>>

\* the loop stays on a file until its transfer has succeeded
NextFileMutantRetryFailed ==
  Cardinality({i \in 1..Len(uploadResults) : uploadResults[i].success}) + 1

\* index of the file the loop handles next
NextFile == Len(uploadResults) + 1

\* for (const file of files): a failure is pushed to the results and the loop
\* goes on with the next file
MoreFilesMutantStopOnFailure ==
  /\ NextFile <= Len(files)
  /\ \A i \in 1..Len(uploadResults) : uploadResults[i].success

MoreFiles == NextFile <= Len(files)

\* one pass of the loop for a file whose PUT is sent
UploadFile ==
  /\ pc = "upload"
  /\ MoreFiles
  /\ ~NoUploadUrl(files[NextFile])
  /\ transfers' = Append(transfers, files[NextFile])
  /\ storage' = IF TransferThrows(files[NextFile]) THEN storage
                ELSE storage \cup {StorageKey(files[NextFile])}
  /\ uploadResults' = Append(uploadResults, UploadResult(files[NextFile]))
  /\ UNCHANGED <<planVars, discVars, extraVars>>
  /\ UNCHANGED <<files, pc, dbVars, impl, uploadUrls, failing, waitVars,
                 histVars, cmdVars>>

\* one pass of the presigned loop for a file without upload URL: no PUT
UploadSkipped ==
  /\ pc = "upload"
  /\ MoreFiles
  /\ NoUploadUrl(files[NextFile])
  /\ uploadResults' = Append(uploadResults, UploadResult(files[NextFile]))
  /\ UNCHANGED <<planVars, discVars, extraVars>>
  /\ UNCHANGED <<files, pc, dbVars, impl, uploadUrls, failing, transfers,
                 storage, waitVars, histVars, cmdVars>>

\* the loop is over: the results are returned to the command
UploadReturns ==
  /\ pc = "upload"
  /\ ~MoreFiles
  /\ pc' = "uploaded"
  /\ UNCHANGED <<planVars, discVars, extraVars>>
  /\ UNCHANGED <<files, dbVars, upVars, waitVars, cmdVars, histVars>>

(***************************************************************************)
(* SpecUpload: the upload step alone, for every list of files, every set    *)
(* of upload URLs returned and every pattern of failing transfers.          *)
(***************************************************************************)
InitUpload ==
  /\ files \in FileLists
  /\ impl \in {"storage", "presigned"}
  /\ uploadUrls \in IF impl = "presigned" THEN SUBSET Range(files) ELSE {{}}
  /\ failing \in SUBSET Range(files)
  /\ uploadResults = <<>>
  /\ transfers = <<>>
  /\ storage = {}
  /\ input = "ok"
  /\ overwrite = FALSE
  /\ sites = {NewSite}
  /\ unhandled = {}
  /\ uploadWarnings = {}
  /\ warnings = {}
  /\ errorShown = NoError
  /\ successShown = -1
  /\ exitCode = -1
  /\ PlanIdle
  /\ DiscoverIdle
  /\ pc = "upload"
  /\ blobs = {}
  /\ inflight = {}
  /\ maxWaitSeconds = 1
  /\ now = 0
  /\ polls = 0
  /\ progress = {}
  /\ prevAllPending = TRUE
  /\ lastPollInLoop = FALSE
  /\ snapshot = {}
  /\ syncResult = NoResult
  /\ printedErrors = {}
  /\ printedPending = {}
  /\ ExtraIdle

NextUpload ==
  \/ UploadFile
  \/ UploadSkipped
  \/ UploadReturns

SpecUpload == InitUpload /\ [][NextUpload]_vars

(***************************************************************************)
(* publishCommand (lib/commands/publish.js:27-146).                         *)
(***************************************************************************)
\* waitForSync(site.id, 30)
PublishMaxWait == 30

\* process.exit(1) after displayError
ExitWith(message) ==
  /\ errorShown' = message
  /\ exitCode' = 1
  /\ pc' = "exited"

\* every list of files counts as holding markdown
hasMarkdownMutantAlways(fs) == TRUE

\* files.some(f => ['md', 'mdx'].includes(f.extension))
hasMarkdown(fs) == \E i \in 1..Len(fs) : IsMarkdown(getExtension(fs[i]))

\* validateFiles accepts every list of files
validateFilesThrowsMutantNever(fs) == FALSE

\* validateFiles: if (files.length === 0) throw new Error(...)
validateFilesThrows(fs) == Len(fs) = 0

\* path validation, discoverFiles, validateFiles (lines 28-52)
PublishDiscover ==
  /\ pc = "start"
  /\ IF input = "missing"
     THEN ExitWith("Path not found") /\ UNCHANGED warnings
     ELSE IF input = "invalid"
     THEN ExitWith("Invalid path: neither a file nor a directory")
          /\ UNCHANGED warnings
     ELSE IF validateFilesThrows(files)
     THEN ExitWith("No files found to publish") /\ UNCHANGED warnings
     ELSE /\ warnings' = IF hasMarkdown(files) THEN warnings
                         ELSE warnings \cup {"No markdown files found"}
          /\ pc' = "site_exists"
          /\ UNCHANGED <<errorShown, exitCode>>
  /\ UNCHANGED <<planVars, discVars, extraVars>>
  /\ UNCHANGED <<files, dbVars, upVars, waitVars, histVars, input, overwrite,
                 uploadWarnings, successShown>>

\* the command never stops for an existing site
SiteConflictMutantNever(existingSite, overwriteRequested) == FALSE

\* if (existingSite && !overwrite)
SiteConflict(existingSite, overwriteRequested) ==
  existingSite /\ ~overwriteRequested

\* getAnonymousUser, siteExists and the conflict test (lines 53-68)
PublishSiteExists ==
  /\ pc = "site_exists"
  /\ IF SiteConflict(OldSite \in sites, overwrite)
     THEN ExitWith("A site with this name already exists")
     ELSE /\ pc' = IF OldSite \in sites THEN "delete_site" ELSE "create_site"
          /\ UNCHANGED <<errorShown, exitCode>>
  /\ UNCHANGED <<planVars, discVars, extraVars>>
  /\ UNCHANGED <<files, dbVars, upVars, waitVars, histVars, input, overwrite,
                 uploadWarnings, warnings, successShown>>

\* console.log(chalk.gray("Deleting existing site...")), then
\* deleteSite(user.id, projectName): blob.deleteMany, then site.delete
\* (lines 70-74)
PublishDeleteSite ==
  /\ pc = "delete_site"
  /\ progress' = progress \cup {"Deleting existing site..."}
  /\ blobs' = deleteMany(blobs, OldSite)
  /\ sites' = sites \ {OldSite}
  /\ pc' = "create_site"
  /\ UNCHANGED <<planVars, discVars, extraVars>>
  /\ UNCHANGED <<files, inflight, unhandled, upVars, waitVars, polls,
                 prevAllPending, lastPollInLoop, cmdVars>>

\* createSite(user.id, projectName) (lines 76-80)
PublishCreateSite ==
  /\ pc = "create_site"
  /\ sites' = sites \cup {NewSite}
  /\ pc' = "upload"
  /\ UNCHANGED <<planVars, discVars, extraVars>>
  /\ UNCHANGED <<files, blobs, inflight, unhandled, upVars, waitVars,
                 histVars, cmdVars>>

\* the failed-upload warning, the createBlob calls, which are issued and not
\* awaited (the map callback returns nothing), and the call of waitForSync
\* (lines 87-124)
PublishCreateBlobs ==
  /\ pc = "uploaded"
  /\ uploadWarnings' =
       {[path |-> uploadResults[i].path, error |-> uploadResults[i].error] :
          i \in {j \in 1..Len(uploadResults) : ~uploadResults[j].success}}
  /\ inflight' = Range(files)
  /\ pc' = "ws_enter"
  /\ UNCHANGED <<planVars, discVars, extraVars>>
  /\ UNCHANGED <<files, sites, blobs, unhandled, upVars, waitVars, histVars,
                 input, overwrite, warnings, errorShown, successShown,
                 exitCode>>

\* prisma.blob.create of an issued createBlob call fails: the promise has no
\* handler, and the runtime either goes on or ends the process
CreateBlobRejects ==
  /\ Polling
  /\ \E p \in inflight :
       /\ inflight' = inflight \ {p}
       /\ unhandled' = unhandled \cup {p}
  /\ \E crash \in BOOLEAN :
       /\ pc' = IF crash THEN "crashed" ELSE pc
       /\ exitCode' = IF crash THEN 1 ELSE exitCode
  /\ UNCHANGED <<planVars, discVars, extraVars>>
  /\ UNCHANGED <<files, sites, blobs, upVars, waitVars, histVars, input,
                 overwrite, uploadWarnings, warnings, errorShown,
                 successShown>>

\* the warnings after waitForSync, displaySuccess, disconnect (lines 126-139)
PublishReport ==
  /\ pc = "ws_returned"
  /\ warnings' =
       IF syncResult.timeout
       THEN warnings \cup {"Some files are still processing after 30 seconds"}
       ELSE IF ~syncResult.success /\ syncResult.hasErrors
       THEN warnings \cup {"Some files had processing errors (see above)"}
       ELSE warnings
  /\ successShown' = Len(files)
  /\ exitCode' = 0
  /\ pc' = "done"
  /\ UNCHANGED <<planVars, discVars, extraVars>>
  /\ UNCHANGED <<files, dbVars, upVars, waitVars, histVars, input, overwrite,
                 uploadWarnings, errorShown>>

(***************************************************************************)
(* Spec: one invocation of publishCommand, for every outcome of discovery,  *)
(* every state of the site table and every pattern of failing transfers.    *)
(***************************************************************************)
Init ==
  /\ input \in {"ok", "missing", "invalid"}
  /\ files \in IF input = "ok" THEN ScannedLists ELSE {<<>>}
  /\ overwrite \in BOOLEAN
  /\ sites \in {{}, {OldSite}}
  /\ blobs \in IF sites = {} THEN {{}}
               ELSE {{}, {[NewBlob(OldSite, README_md)
                             EXCEPT !.syncStatus = "SUCCESS"]}}
  /\ impl = "storage"
  /\ uploadUrls = {}
  /\ failing \in SUBSET Range(files)
  /\ maxWaitSeconds = PublishMaxWait
  /\ pc = "start"
  /\ inflight = {}
  /\ unhandled = {}
  /\ uploadResults = <<>>
  /\ transfers = <<>>
  /\ storage = {}
  /\ now = 0
  /\ polls = 0
  /\ progress = {}
  /\ prevAllPending = TRUE
  /\ lastPollInLoop = FALSE
  /\ snapshot = {}
  /\ syncResult = NoResult
  /\ printedErrors = {}
  /\ printedPending = {}
  /\ uploadWarnings = {}
  /\ warnings = {}
  /\ errorShown = NoError
  /\ successShown = -1
  /\ exitCode = -1
  /\ PlanIdle
  /\ DiscoverIdle
  /\ ExtraIdle

\* the poller's two fetching steps, no observer
WsPollUnobserved == WsPoll /\ UNCHANGED histVars

WsTimeoutUnobserved == WsTimeout /\ UNCHANGED histVars

Next ==
  \/ PublishDiscover
  \/ PublishSiteExists
  \/ PublishDeleteSite
  \/ PublishCreateSite
  \/ UploadFile
  \/ UploadReturns
  \/ PublishCreateBlobs
  \/ CreateBlobSettles
  \/ CreateBlobRejects
  \/ WsEnter
  \/ WsPollUnobserved
  \/ WsSleep
  \/ WsTimeoutUnobserved
  \/ ProcessorSucceeds
  \/ ProcessorFails
  \/ PublishReport

Spec == Init /\ [][Next]_vars

\* no command is running
CommandIdle ==
  /\ files = <<>>
  /\ pc = "idle"
  /\ sites = {NewSite}
  /\ blobs = {}
  /\ inflight = {}
  /\ unhandled = {}
  /\ impl = "storage"
  /\ uploadUrls = {}
  /\ failing = {}
  /\ uploadResults = <<>>
  /\ transfers = <<>>
  /\ storage = {}
  /\ now = 0
  /\ maxWaitSeconds = PublishMaxWait
  /\ polls = 0
  /\ progress = {}
  /\ prevAllPending = TRUE
  /\ lastPollInLoop = FALSE
  /\ snapshot = {}
  /\ syncResult = NoResult
  /\ printedErrors = {}
  /\ printedPending = {}
  /\ input = "ok"
  /\ overwrite = FALSE
  /\ uploadWarnings = {}
  /\ warnings = {}
  /\ errorShown = NoError
  /\ successShown = -1
  /\ exitCode = -1

(***************************************************************************)
(* SpecPlan: one call of syncFiles, for every pair of a local and a remote *)
(* path-to-fingerprint map, both values of dryRun and every answer.        *)
(***************************************************************************)
InitPlan ==
  /\ localFiles \in FingerprintMaps
  /\ catalog \in FingerprintMaps
  /\ dryRun \in BOOLEAN
  /\ planPc = "call"
  /\ response = NoResponse
  /\ syncPlan = NoPlan
  /\ apiError = NoError
  /\ CommandIdle
  /\ DiscoverIdle
  /\ ExtraIdle

NextPlan ==
  \/ ApiAnswers
  \/ SyncFilesThrows
  \/ SyncFilesReturns

SpecPlan == InitPlan /\ [][NextPlan]_vars

(***************************************************************************)
(* SpecDiscover: one call of discoverFiles, for every list of at most      *)
(* MaxInputs input paths.                                                   *)
(***************************************************************************)
InitDiscover ==
  /\ inputPaths \in InputLists
  /\ di = 1
  /\ allFiles = <<>>
  /\ projectName = NullValue
  /\ discPc = "start"
  /\ discError = NoError
  /\ ResolveIdle
  /\ CommandIdle
  /\ PlanIdle
  /\ ExtraIdle

NextDiscover ==
  \/ DiscoverStart
  \/ DiscoverFile
  \/ DiscoverDirectory
  \/ DiscoverInvalid
  \/ DiscoverMissing
  \/ DiscoverReturns

SpecDiscover == InitDiscover /\ [][NextDiscover]_vars

(***************************************************************************)
(* SpecResolve: one call of resolveFilePathToUrlPath, for every path made  *)
(* of at most MaxDepth directories, a file stem and an extension.           *)
(***************************************************************************)
\* directory names; the empty one gives a path that starts with "/"
ResolveDirectories ==
  {<<>>, <<"d", "o", "c", "s">>, <<"i", "n", "d", "e", "x">>, <<"a">>}

ResolveStems ==
  {<<>>, <<"R", "E", "A", "D", "M", "E">>, <<"r", "e", "a", "d", "m", "e">>, <<"R", "e", "a", "d", "m", "e">>,
   <<"i", "n", "d", "e", "x">>, <<"I", "N", "D", "E", "X">>, <<"I", "n", "d", "e", "x">>, <<"b">>}

ResolveExtensions ==
  {<<>>, <<".", "m", "d">>, <<".", "m", "d", "x">>, <<".", "M", "D">>, <<".", "p", "n", "g">>}

RECURSIVE ResolvePrefixes(_)
\* the directory prefixes of at most n directories, each followed by "/"
ResolvePrefixes(n) ==
  IF n = 0 THEN {<<>>}
  ELSE ResolvePrefixes(n - 1)
       \cup {p \o d \o Slash : p \in ResolvePrefixes(n - 1),
                                d \in ResolveDirectories}

ResolveInputs ==
  {p \o stem \o ext : p \in ResolvePrefixes(MaxDepth), stem \in ResolveStems,
                      ext \in ResolveExtensions}

InitResolve ==
  /\ resolveArg \in ResolveInputs
  /\ resolveResult = NullValue
  /\ resolvePc = "call"
  /\ inputPaths = <<>>
  /\ di = 1
  /\ allFiles = <<>>
  /\ projectName = NullValue
  /\ discPc = "idle"
  /\ discError = NoError
  /\ CommandIdle
  /\ PlanIdle
  /\ ExtraIdle

NextResolve == ResolveCall

SpecResolve == InitResolve /\ [][NextResolve]_vars

(***************************************************************************)
(* SpecDelete: one invocation of deleteCommand, for every content of the    *)
(* two tables and of the object store and every outcome of the calls.       *)
(***************************************************************************)
InitDelete ==
  /\ deleteArg \in {"", "site"}
  /\ delPc = "start"
  /\ listed = {}
  /\ delLog = {}
  /\ sites \in {{OtherSite}, {OldSite}, {OldSite, OtherSite}}
  /\ blobs \in SUBSET {NewBlob(site, p) : site \in sites, p \in DeletePool}
  /\ storage \in SUBSET {ObjectKey(site, p) : site \in {OldSite, OtherSite},
                                               p \in DeletePool}
  /\ errorShown = NoError
  /\ exitCode = -1
  /\ files = <<>>
  /\ pc = "idle"
  /\ inflight = {}
  /\ unhandled = {}
  /\ impl = "storage"
  /\ uploadUrls = {}
  /\ failing = {}
  /\ uploadResults = <<>>
  /\ transfers = <<>>
  /\ now = 0
  /\ maxWaitSeconds = PublishMaxWait
  /\ polls = 0
  /\ progress = {}
  /\ prevAllPending = TRUE
  /\ lastPollInLoop = FALSE
  /\ snapshot = {}
  /\ syncResult = NoResult
  /\ printedErrors = {}
  /\ printedPending = {}
  /\ input = "ok"
  /\ overwrite = FALSE
  /\ uploadWarnings = {}
  /\ warnings = {}
  /\ successShown = -1
  /\ PlanIdle
  /\ DiscoverIdle
  /\ ApiIdle

NextDelete ==
  \/ DeleteStart
  \/ DeleteSiteRows
  \/ DeleteSiteThrows
  \/ DeleteList
  \/ DeleteObjects
  \/ DeleteReport

SpecDelete == InitDelete /\ [][NextDelete]_vars

(***************************************************************************)
(* SpecApi: one call of each operation of the API client, for every         *)
(* response.                                                                *)
(***************************************************************************)
InitApi ==
  /\ apiOp \in ApiOperations
  /\ apiResponse = NoApiResponse
  /\ apiPc = "call"
  /\ apiThrown = NoApiError
  /\ CommandIdle
  /\ PlanIdle
  /\ DiscoverIdle
  /\ DeleteIdle

NextApi ==
  \/ ApiResponds
  \/ ApiReturns
  \/ ApiReturnsNull
  \/ ApiThrows

SpecApi == InitApi /\ [][NextApi]_vars

(***************************************************************************)
(* Claims about waitForSync, checked under SpecWait.                        *)
(***************************************************************************)
Returned == syncResult.returned

\* C1 (first half): when the snapshots fetched so far were all-PENDING and the
\* N-th one is all-SUCCESS, with N * 1s below the deadline, waitForSync
\* returns success=true and no timeout.
C1_ConvergesWithinNPolls ==
  (/\ Returned
   /\ prevAllPending
   /\ AllAre(snapshot, "SUCCESS")
   /\ polls * SleepSeconds < maxWaitSeconds)
  => (syncResult.success /\ ~syncResult.timeout)

\* C1 (second half): when every snapshot, the one fetched after the deadline
\* included, is all-PENDING, waitForSync returns timeout=true and the snapshot
\* it returns holds every tracked blob as PENDING.
C1_NeverLeavesPending ==
  (/\ Returned
   /\ prevAllPending
   /\ AllAre(snapshot, "PENDING"))
  => (/\ syncResult.timeout
      /\ ~syncResult.success
      /\ syncResult.blobs = snapshot
      /\ AllAre(syncResult.blobs, "PENDING"))

\* C1: both halves of the convergence property of waitForSync.
C1_Convergence == C1_ConvergesWithinNPolls /\ C1_NeverLeavesPending

\* C2: a non-empty snapshot without PENDING rows fetched inside the loop makes
\* waitForSync return at once, success=true without ERROR rows and otherwise
\* success=false with exactly the ERROR rows as errors; a snapshot with a
\* PENDING row never makes it return, whatever ERROR rows it holds.
C2_ReturnsWhenNoPending ==
  (lastPollInLoop /\ snapshot # {})
  => /\ WithStatus(snapshot, "PENDING") = {}
          => /\ Returned
             /\ ~syncResult.timeout
             /\ syncResult.blobs = snapshot
             /\ WithStatus(snapshot, "ERROR") = {}
                  => (syncResult.success /\ ~syncResult.hasErrors)
             /\ WithStatus(snapshot, "ERROR") # {}
                  => /\ ~syncResult.success
                     /\ syncResult.hasErrors
                     /\ syncResult.errors = WithStatus(snapshot, "ERROR")
     /\ WithStatus(snapshot, "PENDING") # {}
          => (~Returned /\ pc \in {"ws_sleep", "ws_poll", "ws_timeout"})

\* a partial failure returned by a second or later poll of the loop
C2_Witness ==
  /\ Returned
  /\ lastPollInLoop
  /\ polls >= 2
  /\ syncResult.hasErrors
  /\ WithStatus(snapshot, "SUCCESS") # {}

\* C3: whenever waitForSync returns timeout=true, the snapshot it returns has
\* at least one PENDING row and the paths printed as still processing are
\* exactly its PENDING rows.
C3_TimeoutHasPending ==
  (Returned /\ syncResult.timeout)
  => /\ WithStatus(syncResult.blobs, "PENDING") # {}
     /\ printedPending = {b.path : b \in WithStatus(syncResult.blobs, "PENDING")}

(***************************************************************************)
(* Claims about the upload step, checked under SpecUpload.                  *)
(***************************************************************************)
\* the transfer of this file fails: no upload URL, or the PUT throws
TransferFailed(path) ==
  \/ impl = "presigned" /\ path \notin uploadUrls
  \/ path \in failing

\* C5: the upload step returns exactly one result per input file, in input
\* order, with success=false and an error message for exactly the files
\* whose transfer failed, and it has sent the PUT of every file that has an
\* upload URL, whatever failed before it.
C5_OneResultPerFile ==
  pc = "uploaded"
  => /\ Len(uploadResults) = Len(files)
     /\ \A i \in 1..Len(files) :
          /\ i <= Len(uploadResults)
          /\ uploadResults[i].path = files[i]
          /\ uploadResults[i].success = ~TransferFailed(files[i])
          /\ (uploadResults[i].error # NoError) = TransferFailed(files[i])
     /\ transfers =
          SelectSeq(files, LAMBDA p : impl = "storage" \/ p \in uploadUrls)

\* the step returned after a first file without upload URL, a second file
\* whose PUT failed and nothing else
C5_Witness ==
  /\ pc = "uploaded"
  /\ Len(files) >= 2
  /\ impl = "presigned"
  /\ files[1] \notin uploadUrls
  /\ files[2] \in uploadUrls \cap failing

(***************************************************************************)
(* Claims about one publish invocation, checked under Spec.                 *)
(***************************************************************************)
\* C4: when a publish invocation has reported, every file whose upload
\* failed is listed with its error, and every row that is ERROR in the last
\* snapshot fetched by waitForSync has been printed with its error detail,
\* whether the wait ended inside the loop or at the deadline.
C4_FailuresReported ==
  (pc = "done" /\ successShown # -1)
  => /\ \A i \in 1..Len(uploadResults) :
          ~uploadResults[i].success
          => [path |-> uploadResults[i].path,
              error |-> uploadResults[i].error] \in uploadWarnings
     /\ \A b \in WithStatus(snapshot, "ERROR") : ErrorLine(b) \in printedErrors

(***************************************************************************)
(* Claims about the sync plan, checked under SpecPlan.                      *)
(***************************************************************************)
PathsOf(entries) == {u.path : u \in entries}

\* C6: the plan syncFiles returns puts a path in toUpload iff it is local
\* only, in toUpdate iff it is in both maps with different fingerprints, in
\* unchanged iff it is in both with equal fingerprints and in deleted iff
\* it is remote only; the four buckets are pairwise disjoint, their union is
\* the union of the local and the remote paths, and the summary counts are
\* the bucket sizes.
C6_PlanPartitions ==
  planPc = "returned"
  => LET L == DOMAIN localFiles
         R == DOMAIN catalog
         up == PathsOf(syncPlan.toUpload)
         upd == PathsOf(syncPlan.toUpdate)
         del == syncPlan.deleted
         same == syncPlan.unchanged
     IN  /\ \A p \in PathPool :
              /\ p \in up <=> (p \in L /\ p \notin R)
              /\ p \in upd <=> (p \in L \cap R /\ localFiles[p] # catalog[p])
              /\ p \in same <=> (p \in L \cap R /\ localFiles[p] = catalog[p])
              /\ p \in del <=> (p \in R /\ p \notin L)
         /\ up \cap upd = {} /\ up \cap del = {} /\ up \cap same = {}
         /\ upd \cap del = {} /\ upd \cap same = {} /\ del \cap same = {}
         /\ up \cup upd \cup del \cup same = L \cup R
         /\ syncPlan.summary.toUpload = Cardinality(syncPlan.toUpload)
         /\ syncPlan.summary.toUpdate = Cardinality(syncPlan.toUpdate)
         /\ syncPlan.summary.deleted = Cardinality(syncPlan.deleted)
         /\ syncPlan.summary.unchanged = Cardinality(syncPlan.unchanged)
         /\ Cardinality(up) = Cardinality(syncPlan.toUpload)
         /\ Cardinality(upd) = Cardinality(syncPlan.toUpdate)

\* the overwrite scenario: one remote file with fingerprint X, locally the
\* same path with fingerprint Y and one new file
C6_Witness ==
  /\ planPc = "returned"
  /\ catalog = [p \in {README_md} |-> "X"]
  /\ DOMAIN localFiles = {README_md, notes_mdx}
  /\ localFiles[README_md] = "Y"
  /\ PathsOf(syncPlan.toUpdate) = {README_md}
  /\ PathsOf(syncPlan.toUpload) = {notes_mdx}
  /\ syncPlan.deleted = {}
  /\ syncPlan.unchanged = {}

(***************************************************************************)
(* Claims about discoverFiles, checked under SpecDiscover.                  *)
(***************************************************************************)
\* the first input is a regular file whose extension is neither md nor mdx
FirstIsOtherFile ==
  /\ Len(inputPaths) >= 1
  /\ isFile(inputPaths[1])
  /\ toLowerCase(extname(inputPaths[1])) \notin {DotMd, DotMdx}

\* C7: the target paths of the files discoverFiles returns are pairwise
\* distinct, for every list of input paths.
C7_UniqueTargetPaths ==
  discPc = "returned"
  => \A i, j \in 1..Len(allFiles) :
       i # j => allFiles[i].path # allFiles[j].path

C10_DirectoryKeepsStructure ==
  (discPc = "returned" /\ Len(inputPaths) >= 1 /\ isDirectory(inputPaths[1]))
  => LET dir == inputPaths[1]
         found == scanDirectory(dir)
     IN  /\ Len(allFiles) > 0 => getProjectName(allFiles) = basename(dir)
         /\ Len(allFiles) >= Len(found)
         /\ \A k \in 1..Len(found) :
              /\ k <= Len(allFiles)
              /\ allFiles[k].originalPath = found[k]
              /\ dir \o Slash \o allFiles[k].path = found[k]

\* a directory with a file in a subdirectory was given first and returned
C10_Witness ==
  /\ discPc = "returned"
  /\ Len(inputPaths) >= 1
  /\ isDirectory(inputPaths[1])
  /\ Len(allFiles) > 0
  /\ getProjectName(allFiles) = <<"s", "i", "t", "e">>
  /\ \E k \in 1..Len(allFiles) :
       /\ LastIndexOf(allFiles[k].path, "/") > 0
       /\ inputPaths[1] \o Slash \o allFiles[k].path
            = allFiles[k].originalPath

\* C11: the project name of a non-empty result depends on the first input
\* alone: it is the first input's name without extension when that input is
\* a file and its base name when it is a directory, whatever inputs follow
\* and also when the directory itself contributes no file.
C11_NameFromFirstInput ==
  (discPc = "returned" /\ Len(allFiles) > 0)
  => getProjectName(allFiles) =
       IF isFile(inputPaths[1])
       THEN DropLast(basename(inputPaths[1]), Len(extname(inputPaths[1])))
       ELSE basename(inputPaths[1])

\* a directory without files was given first and a file after it: the file
\* returned first carries the directory's name
C11_Witness ==
  /\ discPc = "returned"
  /\ Len(inputPaths) = 2
  /\ inputPaths[1] \in EmptyDirectories
  /\ isFile(inputPaths[2])
  /\ Len(allFiles) = 1
  /\ getProjectName(allFiles) = basename(inputPaths[1])

\* number of entries one input adds to the result
Contribution(inputPath) ==
  IF isFile(inputPath) THEN 1 ELSE Len(scanDirectory(inputPath))

RECURSIVE EntriesBefore(_)
\* number of entries added by the inputs before position i
EntriesBefore(i) ==
  IF i = 1 THEN 0
  ELSE EntriesBefore(i - 1) + Contribution(inputPaths[i - 1])

\* C12: the entry of a file given at position 2 or later has the file's
\* base name, extension included, as target path; its URL path is what
\* resolveFilePathToUrlPath returns for that name when the lower-cased
\* extension is md or mdx, and null otherwise.
C12_LaterFileKeepsName ==
  discPc = "returned"
  => \A i \in 2..Len(inputPaths) :
       isFile(inputPaths[i])
       => LET entry == allFiles[EntriesBefore(i) + 1]
              name == basename(inputPaths[i])
          IN  /\ entry.originalPath = inputPaths[i]
              /\ entry.path = name
              /\ entry.appPath =
                   IF toLowerCase(extname(name)) \in {DotMd, DotMdx}
                   THEN resolveFilePathToUrlPath(name)
                   ELSE NullValue

\* a directory with files and then a file named b.MDX were given: the
\* file's entry is b.MDX with URL path b
C12_Witness ==
  /\ discPc = "returned"
  /\ Len(inputPaths) = 2
  /\ isDirectory(inputPaths[1])
  /\ Len(allFiles) >= 3
  /\ allFiles[Len(allFiles)].path = <<"b", ".", "M", "D", "X">>
  /\ allFiles[Len(allFiles)].appPath = <<"b">>

\* t occurs in s
Contains(s, t) ==
  \E i \in 1..(Len(s) - Len(t) + 1) : SubSeq(s, i, i + Len(t) - 1) = t

\* the relative path lies beneath a directory of this name, at any depth
BeneathDirectory(relativePath, name) ==
  \/ startsWith(relativePath, name \o Slash)
  \/ Contains(relativePath, Slash \o name \o Slash)

\* the tree file lies in the directory given as input i
InInput(i, f) ==
  isDirectory(inputPaths[i]) /\ startsWith(f, inputPaths[i] \o Slash)

\* the entries that input i added to the result include this file
InOutputOf(i, f) ==
  \E k \in (EntriesBefore(i) + 1)..(EntriesBefore(i)
                                     + Contribution(inputPaths[i])) :
    k <= Len(allFiles) /\ allFiles[k].originalPath = f

\* C16: no file that lies beneath a .git directory of a directory input, at
\* any depth and with any extension, is among the files returned for that
\* input.
C16_NothingBeneathGit ==
  discPc = "returned"
  => \A i \in 1..Len(inputPaths) : \A j \in 1..Len(TreeFiles) :
       (/\ InInput(i, TreeFiles[j])
        /\ BeneathDirectory(relative(inputPaths[i], TreeFiles[j]),
                            <<".", "g", "i", "t">>))
       => ~InOutputOf(i, TreeFiles[j])

\* the file name falls under the environment-secret, OS artifact or log
\* file rules
IsRuleFileName(name) ==
  \/ startsWith(name, <<".", "e", "n", "v">>)
  \/ name = <<".", "D", "S", "_", "S", "t", "o", "r", "e">>
  \/ name = <<"T", "h", "u", "m", "b", "s", ".", "d", "b">>
  \/ endsWith(name, <<".", "l", "o", "g">>)

\* the names of the directories the directory rules skip
RuleDirectories ==
  {DropLast(IGNORE_PATTERNS[n].text, 1) :
     n \in {m \in 1..Len(IGNORE_PATTERNS) :
              endsWith(IGNORE_PATTERNS[m].text, Slash)}}

\* C17: of the files in a directory input, none whose name starts with
\* .env, is .DS_Store or Thumbs.db, or ends in .log is returned, wherever
\* it lies in the tree; and a file that is not returned has such a name or
\* lies beneath a directory that the directory rules skip.
C17_RuleFilesExcluded ==
  discPc = "returned"
  => \A i \in 1..Len(inputPaths) : \A j \in 1..Len(TreeFiles) :
       InInput(i, TreeFiles[j])
       => /\ IsRuleFileName(basename(TreeFiles[j]))
             => ~InOutputOf(i, TreeFiles[j])
          /\ ~InOutputOf(i, TreeFiles[j])
             => \/ IsRuleFileName(basename(TreeFiles[j]))
                \/ \E d \in RuleDirectories :
                     BeneathDirectory(relative(inputPaths[i], TreeFiles[j]), d)

\* the patterns listed in the .gitignore at the root of a directory
GitignoreOf(dirPath) ==
  IF dirPath = <<"/", "w", "/", "s", "i", "t", "e">>
  THEN {<<"d", "r", "a", "f", "t", ".", "m", "d">>}
  ELSE {}

\* C18: when a directory input has a .gitignore at its root, no file whose
\* relative path is a pattern of that .gitignore is returned for it.
C18_GitignoreHonoured ==
  discPc = "returned"
  => \A i \in 1..Len(inputPaths) : \A j \in 1..Len(TreeFiles) :
       (/\ InInput(i, TreeFiles[j])
        /\ isFile(inputPaths[i] \o <<"/", ".", "g", "i", "t", "i", "g", "n", "o", "r", "e">>)
        /\ relative(inputPaths[i], TreeFiles[j]) \in GitignoreOf(inputPaths[i]))
       => ~InOutputOf(i, TreeFiles[j])

(***************************************************************************)
(* Claims about resolveFilePathToUrlPath, checked under SpecResolve.        *)
(***************************************************************************)
\* a path without one trailing .md or .mdx, compared without regard to case
WithoutMarkdownExtension(path) ==
  IF Len(path) >= 4 /\ toLowerCase(SubSeq(path, Len(path) - 3, Len(path))) = DotMdx
  THEN SubSeq(path, 1, Len(path) - 4)
  ELSE IF Len(path) >= 3
          /\ toLowerCase(SubSeq(path, Len(path) - 2, Len(path))) = DotMd
  THEN SubSeq(path, 1, Len(path) - 3)
  ELSE path

\* the path is README once its extension is stripped, whatever the case
IsReadmePath(path) ==
  toLowerCase(WithoutMarkdownExtension(path)) = <<"r", "e", "a", "d", "m", "e">>

\* the last segment of the path is index once the extension is stripped,
\* whatever the case
IsIndexPath(path) ==
  toLowerCase(basename(WithoutMarkdownExtension(path))) = <<"i", "n", "d", "e", "x">>

\* the path above the last segment, without the "/" between them
ParentPath(path) ==
  IF LastIndexOf(path, "/") = 0 THEN <<>>
  ELSE SubSeq(path, 1, LastIndexOf(path, "/") - 1)

\* C13: resolveFilePathToUrlPath returns "/" for every path that is README
\* after its .md/.mdx extension is stripped, compared without regard to case.
C13_ReadmeIsRoot ==
  (resolvePc = "returned" /\ IsReadmePath(resolveArg))
  => resolveResult = Slash

\* C14: for every path whose last segment is index after the extension is
\* stripped, compared without regard to case, resolveFilePathToUrlPath
\* returns the parent path, or "/" when the parent is empty.
C14_IndexIsParent ==
  (resolvePc = "returned" /\ IsIndexPath(resolveArg))
  => resolveResult =
       IF ParentPath(WithoutMarkdownExtension(resolveArg)) = <<>> THEN Slash
       ELSE ParentPath(WithoutMarkdownExtension(resolveArg))

\* the three examples of C15
ResolveExamples ==
  /\ resolveArg = README_md => resolveResult = Slash
  /\ resolveArg = <<"d", "o", "c", "s", "/", "i", "n", "d", "e", "x", ".", "m", "d", "x">>
       => resolveResult = <<"d", "o", "c", "s">>
  /\ resolveArg = <<"a", "/", "b", ".", "m", "d">> => resolveResult = <<"a", "/", "b">>

\* C15 as stated: every call returns, the three examples hold, and for a
\* path that is neither a README nor index-terminated the result is the
\* path with one trailing .md/.mdx removed and nothing else changed.
C15_OtherPathsStripped ==
  resolvePc = "returned"
  => /\ resolveResult # NullValue
     /\ ResolveExamples
     /\ (~IsReadmePath(resolveArg) /\ ~IsIndexPath(resolveArg))
        => resolveResult = WithoutMarkdownExtension(resolveArg)

\* C15 as amended: as stated, except that the result is "/" when nothing
\* is left of the path once the extension is removed.
C15_OtherPathsStrippedOrRoot ==
  resolvePc = "returned"
  => /\ resolveResult # NullValue
     /\ ResolveExamples
     /\ (~IsReadmePath(resolveArg) /\ ~IsIndexPath(resolveArg))
        => resolveResult =
             IF WithoutMarkdownExtension(resolveArg) = <<>> THEN Slash
             ELSE WithoutMarkdownExtension(resolveArg)

\* a nested path with an upper-case extension was resolved to the path
\* without it
C15_Witness ==
  /\ resolvePc = "returned"
  /\ resolveArg = <<"a", "/", "b", ".", "M", "D">>
  /\ resolveResult = <<"a", "/", "b">>

(***************************************************************************)
(* Claims about the aborts of publishCommand, under Spec.                   *)
(***************************************************************************)
\* no site row, blob row, transfer or stored object has been touched by
\* this invocation and no createBlob call has been issued
NothingRemoteDone ==
  /\ NewSite \notin sites
  /\ \A b \in blobs : b.siteId # NewSite
  /\ transfers = <<>>
  /\ storage = {}
  /\ uploadResults = <<>>
  /\ inflight = {}
  /\ unhandled = {}

\* C19: when the site exists and overwrite was not requested, the step after
\* discovery reports the conflict and exits with code 1, and it leaves the
\* site table, the blob table, the storage and the transfers as they were;
\* from then on the existing site is still there and nothing remote has
\* been done.
C19_ConflictAbortsFirst ==
  /\ [](  (/\ input = "ok" /\ Len(files) > 0
           /\ OldSite \in sites /\ ~overwrite
           /\ pc \notin {"start", "site_exists"})
        => (/\ pc = "exited"
            /\ errorShown = "A site with this name already exists"
            /\ exitCode = 1
            /\ NothingRemoteDone))
  /\ [][(pc = "site_exists" /\ OldSite \in sites /\ ~overwrite)
        => (/\ pc' = "exited"
            /\ UNCHANGED <<sites, blobs, transfers, storage, uploadResults,
                           inflight, unhandled>>)]_vars

\* C19 witness: the conflict has been reported over a site with a blob row
C19_Witness ==
  /\ pc = "exited"
  /\ errorShown = "A site with this name already exists"
  /\ exitCode = 1
  /\ sites = {OldSite}
  /\ blobs # {}
  /\ Len(files) = MaxFiles

\* the problem that makes discovery fail for this invocation, or NoError
DiscoveryProblem ==
  IF input = "missing" THEN "Path not found"
  ELSE IF input = "invalid"
  THEN "Invalid path: neither a file nor a directory"
  ELSE IF Len(files) = 0 THEN "No files found to publish"
  ELSE NoError

\* C20: when an input path is missing or is neither a file nor a directory,
\* or when no file is discovered, the command exits with code 1 showing the
\* error that names the problem, and nothing remote has been done; and in
\* every invocation the site table, the blob table, the storage and the
\* transfers change only after discovery and validation have succeeded.
C20_InputErrorsAbortFirst ==
  /\ [](  (DiscoveryProblem # NoError /\ pc # "start")
        => (/\ pc = "exited"
            /\ errorShown = DiscoveryProblem
            /\ exitCode = 1
            /\ NothingRemoteDone))
  /\ [][(\/ sites' # sites \/ blobs' # blobs \/ transfers' # transfers
         \/ storage' # storage \/ inflight' # inflight)
        => (pc # "start" /\ DiscoveryProblem = NoError)]_vars

\* C20 witness: no file was found, the command has stopped and the existing
\* site and its blob row are still there
C20_Witness ==
  /\ pc = "exited"
  /\ input = "ok"
  /\ errorShown = "No files found to publish"
  /\ exitCode = 1
  /\ sites = {OldSite}
  /\ blobs # {}
  /\ overwrite

C22_DeletedMeansGone ==
  DeleteSuccess \in delLog
  => /\ OldSite \notin sites
     /\ \A b \in blobs : b.siteId # OldSite
     /\ WithPrefix(storage, OldSite) = {}

(***************************************************************************)
(* Claims about the API client, under SpecApi.                              *)
(***************************************************************************)
\* the body of the response carries a message
CarriesMessage(resp) == resp.message \notin {NoMessage, ""}

\* C23: an operation returns a value only for an OK response; for a non-OK
\* response it throws, with the message of the body when the body carries
\* one and otherwise with a message that contains the status text; only
\* getSiteByName answers null, and only for status 404.
C23_ThrowsOnNonOk ==
  /\ [](/\ apiPc = "returned" => apiResponse.ok
        /\ apiPc = "returned_null"
           => (apiOp = "getSiteByName" /\ apiResponse.status = 404)
        /\ apiPc = "threw"
           => /\ ~apiResponse.ok
              /\ ~(apiOp = "getSiteByName" /\ apiResponse.status = 404)
              /\ IF CarriesMessage(apiResponse)
                 THEN apiThrown = <<apiResponse.message>>
                 ELSE \E n \in 1..Len(apiThrown) :
                        apiThrown[n] = apiResponse.statusText)
  /\ [][(apiPc = "responded" /\ ~apiResponse.ok)
        => IF apiOp = "getSiteByName" /\ apiResponse.status = 404
           THEN apiPc' = "returned_null"
           ELSE apiPc' = "threw"]_vars

\* C23 witness: getSiteByName threw for status 500 with a body without
\* message
C23_Witness ==
  /\ apiPc = "threw"
  /\ apiOp = "getSiteByName"
  /\ apiResponse.status = 500
  /\ apiResponse.message = NoMessage
  /\ apiThrown = <<"Failed to fetch site: ", "Internal Server Error">>

(***************************************************************************)
(* Claims about the transfers of one publish invocation, under Spec.        *)
(***************************************************************************)
\* C24: the transfers sent so far are transfers of discovered files and no
\* file occurs twice among them, whether its transfer failed or not; every
\* step leaves the transfers alone or adds one for a file not yet sent.
C24_AtMostOneTransfer ==
  /\ [](/\ \A i \in 1..Len(transfers) : transfers[i] \in Range(files)
        /\ \A i, j \in 1..Len(transfers) :
             transfers[i] = transfers[j] => i = j)
  /\ [][\/ transfers' = transfers
        \/ \E p \in Range(files) \ Range(transfers) :
             transfers' = Append(transfers, p)]_vars

\* C24 witness: the command has ended after a publish in which the transfer
\* of the first file failed and each file was sent once
C24_Witness ==
  /\ pc = "done"
  /\ Len(files) = MaxFiles
  /\ files[1] \in failing
  /\ transfers = files
  /\ ~uploadResults[1].success

(***************************************************************************)
(* Further claims about waitForSync, under SpecWait.                        *)
(***************************************************************************)
\* the site has no md or mdx row and none is being written: as rows are only
\* added while waitForSync runs, this was already so when it started
NoContent ==
  /\ getSyncStatus(NewSite) = {}
  /\ \A p \in inflight : ~IsMarkdown(getExtension(p))

\* C25: for a site without content rows, whatever the deadline, waitForSync
\* never sleeps and never takes the timeout path, and it returns
\* success=true without timeout after a single status fetch, made inside
\* the loop.
C25_EmptySiteSucceedsAtOnce ==
  NoContent
  => /\ pc \notin {"ws_sleep", "ws_timeout"}
     /\ Returned
        => /\ syncResult.success
           /\ ~syncResult.timeout
           /\ polls = 1
           /\ lastPollInLoop

(***************************************************************************)
(* Claims about the blob records of one publish invocation, under Spec.     *)
(***************************************************************************)
\* a publish with a markdown file was told by waitForSync that an empty
\* site had converged
EmptySuccess ==
  /\ hasMarkdown(files)
  /\ syncResult.returned
  /\ syncResult.success
  /\ syncResult.blobs = {}

\* C26: while waitForSync runs and afterwards, no createBlob call of the
\* invocation is still unsettled and none has rejected without a handler;
\* a publish with a markdown file is never told that an empty site has
\* converged; and the process never ends on an unhandled rejection.
C26_BlobsWrittenBeforePolling ==
  /\ (Polling \/ pc \in {"ws_returned", "done"})
     => (inflight = {} /\ unhandled = {})
  /\ ~EmptySuccess
  /\ pc # "crashed"

\* the existing site has been deleted by this invocation
OldSiteDeleted == "Deleting existing site..." \in progress

\* C27: the command deletes an existing site only when overwrite was
\* requested; the new site is only ever created when the old one and every
\* blob row of it are gone, so the table never holds two sites of the name;
\* and once the command has gone past the deletion, and so at its end, no
\* blob row of the old site is left.
C27_DeleteBeforeCreate ==
  /\ [](/\ Cardinality(sites) <= 1
        /\ NewSite \in sites
           => (OldSite \notin sites /\ \A b \in blobs : b.siteId # OldSite)
        /\ OldSiteDeleted
           => (overwrite /\ OldSite \notin sites
               /\ \A b \in blobs : b.siteId # OldSite)
        /\ (overwrite /\ pc = "done")
           => (sites = {NewSite} /\ \A b \in blobs : b.siteId = NewSite))
  /\ [][(NewSite \notin sites /\ NewSite \in sites')
        => (sites = {} /\ \A b \in blobs : b.siteId # OldSite)]_vars
  /\ [][(OldSite \in sites /\ overwrite /\ pc = "site_exists")
        => pc' = "delete_site"]_vars

\* C27 witness: a publish over an existing site has ended, the old site
\* was deleted on the way and only the new one is left
C27_Witness ==
  /\ pc = "done"
  /\ overwrite
  /\ OldSiteDeleted
  /\ sites = {NewSite}
  /\ blobs # {}

\* the path is the path of a content file
IsContentPath(path) == getExtension(path) \in {Md, Mdx}

Issued(path) ==
  \/ path \in inflight
  \/ path \in unhandled
  \/ \E b \in blobs : b.siteId = NewSite /\ b.path = path

\* the upload step reported a failure for the file
UploadFailed(path) ==
  \E i \in 1..Len(uploadResults) :
    uploadResults[i].path = path /\ ~uploadResults[i].success

\* C29: once the createBlob calls are made, one has been issued for every
\* discovered file, whatever its upload result; when waitForSync has
\* returned, every markdown file whose upload failed has its row in the
\* table and in the rows waitForSync tracked; and the success message counts
\* the discovered files.
C29_OneRecordPerFile ==
  /\ (Polling \/ pc \in {"ws_returned", "done"})
     => \A p \in Range(files) : Issued(p)
  /\ pc \in {"ws_returned", "done"}
     => \A p \in Range(files) :
          (IsContentPath(p) /\ UploadFailed(p))
          => /\ \E b \in blobs : b.siteId = NewSite /\ b.path = p
             /\ \E b \in syncResult.blobs : b.path = p
  /\ pc = "done" => successShown = Len(files)

(***************************************************************************)
(* Termination of waitForSync, under SpecWaitFair.                          *)
(***************************************************************************)
\* what waitForSync returned is a success
IsSuccess ==
  syncResult.success /\ ~syncResult.timeout /\ ~syncResult.hasErrors

\* what waitForSync returned is a partial failure with its errors
IsPartialFailure ==
  /\ ~syncResult.success /\ ~syncResult.timeout /\ syncResult.hasErrors
  /\ syncResult.errors # {}

\* what waitForSync returned is a timeout
IsTimeout ==
  ~syncResult.success /\ syncResult.timeout /\ ~syncResult.hasErrors

\* C30: waitForSync returns in every behaviour in which its fetches return
\* and its sleeps end, whatever the processor does; the polls made inside
\* the loop number at most deadline / 1 s and at most one fetch follows
\* them; and what it returns is exactly one of success, partial failure and
\* timeout, never success together with timeout.
C30_Terminates ==
  /\ <>Returned
  /\ [](/\ lastPollInLoop => polls * SleepSeconds <= maxWaitSeconds
        /\ polls * SleepSeconds <= maxWaitSeconds + SleepSeconds
        /\ Returned
           => /\ (IsSuccess /\ ~IsPartialFailure /\ ~IsTimeout)
                 \/ (~IsSuccess /\ IsPartialFailure /\ ~IsTimeout)
                 \/ (~IsSuccess /\ ~IsPartialFailure /\ IsTimeout)
              /\ ~(syncResult.success /\ syncResult.timeout)
              /\ pc = "ws_returned")
  /\ [][Returned => UNCHANGED <<syncResult, polls>>]_vars

\* C30 witness: a row stayed PENDING through as many polls as the longest
\* deadline allows and waitForSync returned the timeout after one more fetch
C30_Witness ==
  /\ Returned
  /\ IsTimeout
  /\ maxWaitSeconds = MaxWait
  /\ polls = MaxWait + 1
  /\ prevAllPending
  /\ AllAre(snapshot, "PENDING")

=============================================================================
